---- MODULE Spec2Model ----
(***************************************************************************)
(* Model of analysis.py: parse_gains_list, analyze_sales and the entry     *)
(* point.  Text is modelled as sequences of one-character strings, money   *)
(* as an integer number of hundredths (5.0 is 500).  The input cells carry  *)
(* at most two fractional digits, and the gain tokens of the gains file    *)
(* are finite decimals, so the hundredths are exact.                       *)
(***************************************************************************)
EXTENDS Integers, Sequences, FiniteSets, TLC

\* ------------------------------------------------------------------ bounds
MaxLines == 2
MaxRows == 2

\* ------------------------------------------------------- text primitives
Digits == {"0", "1", "2", "3", "4", "5", "6", "7", "8", "9"}

DigitVal(c) ==
  CASE c = "0" -> 0 [] c = "1" -> 1 [] c = "2" -> 2 [] c = "3" -> 3
    [] c = "4" -> 4 [] c = "5" -> 5 [] c = "6" -> 6 [] c = "7" -> 7
    [] c = "8" -> 8 [] c = "9" -> 9

DigitChar(d) ==
  CASE d = 0 -> "0" [] d = 1 -> "1" [] d = 2 -> "2" [] d = 3 -> "3"
    [] d = 4 -> "4" [] d = 5 -> "5" [] d = 6 -> "6" [] d = 7 -> "7"
    [] d = 8 -> "8" [] d = 9 -> "9"

\* code point of a character, the order sorted() compares strings by
Ord(c) ==
  CASE c = " " -> 32 [] c = "$" -> 36 [] c = "+" -> 43 [] c = "," -> 44
    [] c = "-" -> 45 [] c = "." -> 46 [] c = ":" -> 58
    [] c \in Digits -> 48 + DigitVal(c)
    [] c = "A" -> 65 [] c = "B" -> 66
    [] c = "a" -> 97 [] c = "b" -> 98 [] c = "d" -> 100 [] c = "f" -> 102
    [] c = "i" -> 105 [] c = "n" -> 110 [] c = "x" -> 120

IsSpace(c) == c = " "

Tail0(s, n) == SubSeq(s, n + 1, Len(s))

RECURSIVE LStrip(_)
LStrip(s) ==
  IF s # <<>> /\ IsSpace(Head(s)) THEN LStrip(Tail(s)) ELSE s

RECURSIVE RStrip(_)
RStrip(s) ==
  IF s # <<>> /\ IsSpace(s[Len(s)]) THEN RStrip(SubSeq(s, 1, Len(s) - 1)) ELSE s

\* str.strip()
Strip(s) == RStrip(LStrip(s))

\* str.replace(c, '')
Remove(s, c) == SelectSeq(s, LAMBDA ch : ch # c)

\* c in s
Contains(s, c) == \E i \in 1..Len(s) : s[i] = c

\* str.split(sep) for a one-character separator: always n+1 parts
RECURSIVE Split(_, _)
Split(s, sep) ==
  IF ~Contains(s, sep) THEN <<s>>
  ELSE LET i == CHOOSE k \in 1..Len(s) :
                  s[k] = sep /\ \A j \in 1..(k - 1) : s[j] # sep
       IN <<SubSeq(s, 1, i - 1)>> \o Split(Tail0(s, i), sep)

\* re.split(r'\s{2,}', line, 1): cut at the first run of two or more spaces
SplitOnGap(s) ==
  IF \E k \in 1..(Len(s) - 1) : IsSpace(s[k]) /\ IsSpace(s[k + 1])
  THEN LET i == CHOOSE k \in 1..(Len(s) - 1) :
                  /\ IsSpace(s[k]) /\ IsSpace(s[k + 1])
                  /\ \A j \in 1..(k - 1) : ~(IsSpace(s[j]) /\ IsSpace(s[j + 1]))
       IN <<SubSeq(s, 1, i - 1), LStrip(Tail0(s, i - 1))>>
  ELSE <<s>>

CleanNumeric_KeepSign(s) == SelectSeq(s, LAMBDA ch : ch \in Digits \cup {".", "-"})

\* re.sub(r'[^\d.]', '', s): the residue of digits and decimal points
CleanNumeric(s) == SelectSeq(s, LAMBDA ch : ch \in Digits \cup {"."})

AllDigits(s) == \A i \in 1..Len(s) : s[i] \in Digits

RECURSIVE DigitsVal(_)
DigitsVal(s) ==
  IF s = <<>> THEN 0 ELSE DigitsVal(SubSeq(s, 1, Len(s) - 1)) * 10 + DigitVal(s[Len(s)])

\* first two fractional digits as hundredths
Hundredths(fr) ==
  IF Len(fr) = 0 THEN 0
  ELSE IF Len(fr) = 1 THEN DigitVal(fr[1]) * 10
  ELSE DigitVal(fr[1]) * 10 + DigitVal(fr[2])

\* unsigned decimal literal: digits with at most one point, at least one digit
UDecimal(s) ==
  LET parts == Split(s, ".")
  IN IF Len(parts) = 1 /\ s # <<>> /\ AllDigits(s)
     THEN [ok |-> TRUE, kind |-> "fin", val |-> DigitsVal(s) * 100]
     ELSE IF /\ Len(parts) = 2 /\ AllDigits(parts[1]) /\ AllDigits(parts[2])
             /\ Len(parts[1]) + Len(parts[2]) > 0
     THEN [ok |-> TRUE, kind |-> "fin",
           val |-> DigitsVal(parts[1]) * 100 + Hundredths(parts[2])]
     ELSE IF s \in {<<"i", "n", "f">>}
     THEN [ok |-> TRUE, kind |-> "inf", val |-> 0]
     ELSE IF s \in {<<"n", "a", "n">>}
     THEN [ok |-> TRUE, kind |-> "nan", val |-> 0]
     ELSE [ok |-> FALSE, kind |-> "ValueError", val |-> 0]

\* float(s): surrounding blanks and one sign allowed; ok = FALSE is ValueError
PyFloat(s) ==
  LET t == Strip(s)
      neg == t # <<>> /\ Head(t) = "-"
      u == IF t # <<>> /\ Head(t) \in {"-", "+"} THEN Tail(t) ELSE t
      r == UDecimal(u)
  IN IF neg THEN [r EXCEPT !.val = 0 - r.val] ELSE r

\* int(s) of a string: surrounding blanks and one sign allowed
PyInt(s) ==
  LET t == Strip(s)
      neg == t # <<>> /\ Head(t) = "-"
      u == IF t # <<>> /\ Head(t) \in {"-", "+"} THEN Tail(t) ELSE t
  IN IF u # <<>> /\ AllDigits(u)
     THEN [ok |-> TRUE, val |-> IF neg THEN 0 - DigitsVal(u) ELSE DigitsVal(u)]
     ELSE [ok |-> FALSE, val |-> 0]

RECURSIVE NatStr(_)
NatStr(n) ==
  IF n < 10 THEN <<DigitChar(n)>> ELSE NatStr(n \div 10) \o <<DigitChar(n % 10)>>

\* str(n) of an integer
PyStr(n) == IF n < 0 THEN <<"-">> \o NatStr(0 - n) ELSE NatStr(n)

\* int(x) of a float: truncation toward zero; inf and nan raise
IntOfFloat(f) ==
  IF f.kind = "inf" THEN [ok |-> FALSE, exc |-> "OverflowError", val |-> 0]
  ELSE IF f.kind = "nan" THEN [ok |-> FALSE, exc |-> "ValueError", val |-> 0]
  ELSE [ok |-> TRUE, exc |-> "none",
        val |-> IF f.val < 0 THEN 0 - ((0 - f.val) \div 100) ELSE f.val \div 100]

\* f"{month:02d}"
Format02d(m) == IF m >= 0 /\ m < 10 THEN <<"0">> \o NatStr(m) ELSE PyStr(m)

\* f"{year}-{month:02d}"
MonthKey(year, month) == PyStr(year) \o <<"-">> \o Format02d(month)

\* a < b in the order Python compares strings
RECURSIVE LexLess(_, _)
LexLess(a, b) ==
  IF b = <<>> THEN FALSE
  ELSE IF a = <<>> THEN TRUE
  ELSE IF Head(a) = Head(b) THEN LexLess(Tail(a), Tail(b))
  ELSE Ord(Head(a)) < Ord(Head(b))

\* sorted(keys)
RECURSIVE Sorted(_)
Sorted(S) ==
  IF S = {} THEN <<>>
  ELSE LET m == CHOOSE x \in S : \A y \in S \ {x} : LexLess(x, y)
       IN <<m>> \o Sorted(S \ {m})

\* ------------------------------------------------------- parse_gains_list
EmptyMap == [k \in {} |-> 0]

\* d[key] = v on a dict, creating the key when absent
Put(d, key, v) ==
  IF key \in DOMAIN d THEN [d EXCEPT ![key] = v] ELSE (key :> v) @@ d

\* gains_map[product_name][quantity] = gain on the defaultdict(dict)
StoreGain(tab, product, quantity, gain) ==
  Put(tab, product,
      Put(IF product \in DOMAIN tab THEN tab[product] ELSE EmptyMap, quantity, gain))

\* lines 21-26 for one rule: "none" when it has no colon, "bad" when the
\* unpacking or float() raises ValueError, "ok" with its two tokens otherwise
RuleOf(rule) ==
  IF ~Contains(rule, ":") THEN [kind |-> "none", quantity |-> <<>>, gain |-> 0]
  ELSE LET parts == Split(rule, ":")
       IN IF Len(parts) # 2 THEN [kind |-> "bad", quantity |-> <<>>, gain |-> 0]
          ELSE LET g == PyFloat(Strip(parts[2]))
               IN IF ~g.ok THEN [kind |-> "bad", quantity |-> <<>>, gain |-> 0]
                  ELSE [kind |-> "ok", quantity |-> Strip(parts[1]), gain |-> g.val]

ParseRule(tab, product, rule) ==
  LET r == RuleOf(rule)
  IN IF r.kind = "ok" THEN StoreGain(tab, product, r.quantity, r.gain) ELSE tab

RECURSIVE ParseRules_AbortOnBad(_, _, _)
ParseRules_AbortOnBad(tab, product, rules) ==
  IF rules = <<>> THEN tab
  ELSE IF RuleOf(Head(rules)).kind = "bad" THEN tab
  ELSE ParseRules_AbortOnBad(ParseRule(tab, product, Head(rules)), product, Tail(rules))

\* the loop over the rules of one line
RECURSIVE ParseRules(_, _, _)
ParseRules(tab, product, rules) ==
  IF rules = <<>> THEN tab
  ELSE ParseRules(ParseRule(tab, product, Head(rules)), product, Tail(rules))

\* the body of the loop over the lines of the gains file
ParseLine(tab, rawline) ==
  LET line == Strip(rawline)
      parts == SplitOnGap(line)
      product_name == Strip(parts[1])
  IN IF line = <<>> THEN tab
     ELSE IF Len(parts) > 1 /\ Strip(parts[2]) # <<>>
     THEN ParseRules(tab, product_name, Split(Strip(parts[2]), ","))
     ELSE tab

\* ----------------------------------------------------------- analyze_sales
\* truth value of gains_map: None and the empty dict are false
Truthy(gm) == ~gm.isNone /\ DOMAIN gm.tab # {}

\* lines 81-86: the table lookup under the quantity key
\* str(int(float(quantity_str))); ValueError is caught, anything else escapes
LookupGain(product_name, quantity_str, gm) ==
  LET q == PyFloat(quantity_str)
  IN IF ~q.ok THEN [exc |-> "none", val |-> 0]
     ELSE LET k == IntOfFloat(q)
          IN IF ~k.ok
             THEN (IF k.exc = "ValueError" THEN [exc |-> "none", val |-> 0]
                   ELSE [exc |-> k.exc, val |-> 0])
             ELSE IF PyStr(k.val) \in DOMAIN gm.tab[product_name]
             THEN [exc |-> "none", val |-> gm.tab[product_name][PyStr(k.val)]]
             ELSE [exc |-> "none", val |-> 0]

\* float(cleaned_ganancia_str) at line 76
ExplicitGain(cleaned) ==
  LET g == PyFloat(cleaned)
  IN IF g.ok THEN [exc |-> "none", val |-> g.val] ELSE [exc |-> "ValueError", val |-> 0]

FinalGanancia_TableFirst(product_name, quantity_str, price, ganancia_str, gm) ==
  LET cleaned_ganancia_str == CleanNumeric(ganancia_str)
  IN IF price # 0 /\ Truthy(gm) /\ product_name \in DOMAIN gm.tab
     THEN LookupGain(product_name, quantity_str, gm)
     ELSE IF cleaned_ganancia_str # <<>> THEN ExplicitGain(cleaned_ganancia_str)
     ELSE [exc |-> "none", val |-> 0]

FinalGanancia_NoZeroPriceRule(product_name, quantity_str, price, ganancia_str, gm) ==
  LET cleaned_ganancia_str == CleanNumeric(ganancia_str)
  IN IF cleaned_ganancia_str # <<>> THEN ExplicitGain(cleaned_ganancia_str)
     ELSE IF Truthy(gm) /\ product_name \in DOMAIN gm.tab
     THEN LookupGain(product_name, quantity_str, gm)
     ELSE [exc |-> "none", val |-> 0]

\* lines 71-86: the effective gain of a row, or the exception raised
FinalGanancia(product_name, quantity_str, price, ganancia_str, gm) ==
  LET cleaned_ganancia_str == CleanNumeric(ganancia_str)
  IN IF cleaned_ganancia_str # <<>> THEN ExplicitGain(cleaned_ganancia_str)
     ELSE IF price = 0 THEN [exc |-> "none", val |-> 0]
     ELSE IF Truthy(gm) /\ product_name \in DOMAIN gm.tab
     THEN LookupGain(product_name, quantity_str, gm)
     ELSE [exc |-> "none", val |-> 0]

Skip == [kind |-> "skip", exc |-> "none", key |-> <<>>, price |-> 0, gain |-> 0]

Raise(e) == [kind |-> "raise", exc |-> e, key |-> <<>>, price |-> 0, gain |-> 0]

Caught_OnlyIndexError(e) == IF e = "IndexError" THEN Skip ELSE Raise(e)

\* lines 91-92: except (ValueError, IndexError): continue; any other
\* exception leaves the loop and the function
Caught(e) == IF e \in {"ValueError", "IndexError"} THEN Skip ELSE Raise(e)

\* lines 50-92: the body of the loop over the data rows
RowResult(row, gm) ==
  IF Len(row) < 5 THEN Skip
  ELSE
    LET product_name == Strip(row[1])
        quantity_str == Strip(Remove(Remove(row[2], "\""), ","))
        cleaned_price_str == CleanNumeric(row[3])
        p == IF cleaned_price_str # <<>> THEN PyFloat(cleaned_price_str)
             ELSE [ok |-> TRUE, kind |-> "fin", val |-> 0]
        date_parts == Split(row[4], "-")
    IN IF ~p.ok THEN Caught("ValueError")
       ELSE IF Len(date_parts) < 3 THEN Skip
       ELSE
         LET year == PyInt(date_parts[1])
             month == PyInt(date_parts[2])
         IN IF ~year.ok \/ ~month.ok THEN Caught("ValueError")
            ELSE
              LET g == FinalGanancia(product_name, quantity_str, p.val, row[5], gm)
              IN IF g.exc = "none"
                 THEN [kind |-> "add", exc |-> "none",
                       key |-> MonthKey(year.val, month.val),
                       price |-> p.val, gain |-> g.val]
                 ELSE Caught(g.exc)

\* monthly[month_key] += v on a defaultdict(float)
AddTo(d, key, v) ==
  IF key \in DOMAIN d THEN [d EXCEPT ![key] = @ + v] ELSE (key :> v) @@ d

\* meses[i] does not raise IndexError: a list of 12 takes indices -12..11
MesesIndexOk(i) == i >= 0 - 12 /\ i <= 11

\* lines 105-106: the running grand totals take one month's totals
GrandStep_Overwrite(total, monthly) == monthly

GrandStep(total, monthly) == total + monthly

\* ------------------------------------------------------------------ inputs
PA == <<"A">>
PB == <<"B">>

\* lines of the gains file
G1 == <<"A", " ", " ", "1", ":", "5", ",", "b", "a", "d", ",", "2", ":", "9">>
G2 == <<"A", " ", " ", "2", ":", "-", "3">>
G3 == <<"B", " ", " ", "1", ":", "x", ",", " ", "2", ":", "4", " ">>
G4 == <<"B">>
G5 == <<" ">>
GainsLines == {G1, G2, G3, G4, G5}

Q2 == <<"2">>
QFrac == <<"2", ".", "9">>
QText == <<"x">>
QInf == <<"i", "n", "f">>
Quantities == {Q2, QText, QInf}

PrEmpty == <<>>
PrZero == <<"0">>
PrTen == <<"$", "1", "0">>
PrBad == <<"1", ".", ".">>
Prices == {PrZero, PrTen}

GnEmpty == <<>>
GnExplicit == <<"$", "7", ".", "5", "0">>
GnMinus == <<"-", "3">>
GnBad == <<".">>
Gains == {GnEmpty, GnExplicit}

D1 == <<"2", "0", "2", "4", "-", "0", "1", "-", "0", "5">>
D2 == <<"9", "9", "-", "1", "2", "-", "3", "1">>
D3 == <<"2", "0", "2", "4", "-", "1", "3", "-", "0", "1">>
D4 == <<"2", "0", "2", "3", "-", "1", "2", "-", "0", "1">>
DTwoParts == <<"2", "0", "2", "4", "-", "0", "1">>
DBadMonth == <<"2", "0", "2", "4", "-", "x", "-", "0", "1">>
DBadYear == <<"x", "-", "0", "1", "-", "0", "1">>
OtherDates == {D2, D3, D4, DTwoParts, DBadMonth, DBadYear}

ResolverRows ==
  {<<PA, q, pr, D1, g>> : q \in Quantities, pr \in Prices, g \in Gains}

DateRows == {<<PA, Q2, PrTen, d, GnExplicit>> : d \in OtherDates}

OddRows ==
  { <<PA, Q2, PrTen, D1>>,
    <<PA, Q2, PrTen, D1, GnExplicit, <<"x">>>>,
    <<PA, Q2, PrBad, D1, GnEmpty>>,
    <<PA, Q2, PrTen, D1, GnBad>>,
    <<PA, QInf, PrBad, D1, GnEmpty>>,
    <<PA, QText, <<"x">>, D4, GnEmpty>>,
    <<PA, Q2, PrEmpty, D1, GnEmpty>>,
    <<PA, Q2, PrEmpty, D1, GnExplicit>>,
    <<PA, Q2, PrTen, D1, GnMinus>>,
    <<PA, QFrac, PrTen, D1, GnEmpty>>,
    <<PB, Q2, PrTen, D1, GnEmpty>>,
    <<PA, Q2, PrTen, D2, GnEmpty>>,
    <<PA, Q2, PrTen, DBadMonth, GnEmpty>> }

Rows == ResolverRows \cup DateRows \cup OddRows

\* ------------------------------------------------------------------- state
VARIABLES pc, caller, gains_file, sales_file, gains_lines, gains_map,
          monthly_prices, monthly_earnings, row, outcome, nRows,
          sorted_months, idx, total_prices_all_time, total_earnings_all_time,
          report_content, report_file, exc

vars == <<pc, caller, gains_file, sales_file, gains_lines, gains_map,
          monthly_prices, monthly_earnings, row, outcome, nRows,
          sorted_months, idx, total_prices_all_time, total_earnings_all_time,
          report_content, report_file, exc>>

gainsVars == <<gains_lines, gains_map>>
salesVars == <<monthly_prices, monthly_earnings, row, outcome, nRows>>
reportVars == <<sorted_months, idx, total_prices_all_time, total_earnings_all_time,
                report_content, report_file>>

NoTable == [isNone |-> TRUE, tab |-> EmptyMap]

Init ==
  /\ pc = "main"
  /\ caller = "main"
  /\ gains_file \in {"missing", "present"}
  /\ sales_file \in {"missing", "empty", "data"}
  /\ gains_lines = <<>>
  /\ gains_map = NoTable
  /\ monthly_prices = EmptyMap
  /\ monthly_earnings = EmptyMap
  /\ row = <<>>
  /\ outcome = "none"
  /\ nRows = 0
  /\ sorted_months = <<>>
  /\ idx = 0
  /\ total_prices_all_time = 0
  /\ total_earnings_all_time = 0
  /\ report_content = <<>>
  /\ report_file = FALSE
  /\ exc = "none"

\* ------------------------------------------------------ parse_gains_list
\* lines 6-8: the file opens and the empty defaultdict exists
OpenGains ==
  /\ pc = "main" /\ gains_file = "present"
  /\ pc' = "gains"
  /\ gains_map' = [isNone |-> FALSE, tab |-> EmptyMap]
  /\ UNCHANGED <<caller, gains_file, sales_file, gains_lines, exc>>
  /\ UNCHANGED salesVars /\ UNCHANGED reportVars

\* lines 27-29 and 131-132: FileNotFoundError, None returned, main stops
GainsNotFound ==
  /\ pc = "main" /\ gains_file = "missing"
  /\ pc' = "exit"
  /\ gains_map' = NoTable
  /\ UNCHANGED <<caller, gains_file, sales_file, gains_lines, exc>>
  /\ UNCHANGED salesVars /\ UNCHANGED reportVars

\* lines 9-26: one line of the file
ReadGainsLine ==
  /\ pc = "gains" /\ Len(gains_lines) < MaxLines
  /\ \E line \in GainsLines :
       /\ gains_lines' = Append(gains_lines, line)
       /\ gains_map' = [gains_map EXCEPT !.tab = ParseLine(@, line)]
  /\ UNCHANGED <<pc, caller, gains_file, sales_file, exc>>
  /\ UNCHANGED salesVars /\ UNCHANGED reportVars

\* lines 30 and 132-133: end of file, the table is returned and main
\* calls analyze_sales with it
GainsDone ==
  /\ pc = "gains"
  /\ pc' = "sales"
  /\ gains_lines' = <<>>
  /\ UNCHANGED <<caller, gains_file, sales_file, gains_map, exc>>
  /\ UNCHANGED salesVars /\ UNCHANGED reportVars

\* line 32: analyze_sales called by another caller than main, without a table
DirectCall ==
  /\ pc = "main"
  /\ pc' = "sales"
  /\ caller' = "direct"
  /\ gains_map' = NoTable
  /\ UNCHANGED <<gains_file, sales_file, gains_lines, exc>>
  /\ UNCHANGED salesVars /\ UNCHANGED reportVars

\* ---------------------------------------------------------- analyze_sales
\* lines 40-44: the file opens, the header is consumed, the rows are read
OpenSales ==
  /\ pc = "sales" /\ sales_file = "data"
  /\ pc' = "rows"
  /\ UNCHANGED <<caller, gains_file, sales_file, exc>>
  /\ UNCHANGED gainsVars /\ UNCHANGED salesVars /\ UNCHANGED reportVars

SalesNotFound_GoesOn ==
  /\ pc = "sales" /\ sales_file = "missing"
  /\ pc' = "rows"
  /\ UNCHANGED <<caller, gains_file, sales_file, exc>>
  /\ UNCHANGED gainsVars /\ UNCHANGED salesVars /\ UNCHANGED reportVars

\* lines 45-47: FileNotFoundError, a message, return
SalesNotFound ==
  /\ pc = "sales" /\ sales_file = "missing"
  /\ pc' = "exit"
  /\ UNCHANGED <<caller, gains_file, sales_file, exc>>
  /\ UNCHANGED gainsVars /\ UNCHANGED salesVars /\ UNCHANGED reportVars

\* line 43: next(reader) on a file without a header row raises StopIteration,
\* which the except FileNotFoundError clause does not catch
SalesNoHeader ==
  /\ pc = "sales" /\ sales_file = "empty"
  /\ pc' = "exit"
  /\ exc' = "StopIteration"
  /\ UNCHANGED <<caller, gains_file, sales_file>>
  /\ UNCHANGED gainsVars /\ UNCHANGED salesVars /\ UNCHANGED reportVars

\* lines 49-92: one data row
ProcessRow ==
  /\ pc = "rows" /\ nRows < MaxRows
  /\ \E r \in Rows :
       LET res == RowResult(r, gains_map)
       IN /\ row' = r
          /\ outcome' = res.kind
          /\ nRows' = nRows + 1
          /\ IF res.kind = "add"
             THEN /\ monthly_prices' = AddTo(monthly_prices, res.key, res.price)
                  /\ monthly_earnings' = AddTo(monthly_earnings, res.key, res.gain)
             ELSE UNCHANGED <<monthly_prices, monthly_earnings>>
          /\ IF res.kind = "raise"
             THEN pc' = "exit" /\ exc' = res.exc
             ELSE UNCHANGED <<pc, exc>>
  /\ UNCHANGED <<caller, gains_file, sales_file>>
  /\ UNCHANGED gainsVars /\ UNCHANGED reportVars

\* lines 95-98: the rows are exhausted (the loop variable is dead from here
\* on), the month keys are sorted
RowsDone ==
  /\ pc = "rows"
  /\ pc' = "report"
  /\ sorted_months' = Sorted(DOMAIN monthly_prices)
  /\ idx' = 0
  /\ total_prices_all_time' = 0
  /\ total_earnings_all_time' = 0
  /\ row' = <<>> /\ outcome' = "none" /\ nRows' = 0
  /\ UNCHANGED <<monthly_prices, monthly_earnings>>
  /\ UNCHANGED <<report_content, report_file>>
  /\ UNCHANGED <<caller, gains_file, sales_file, exc>>
  /\ UNCHANGED gainsVars

\* lines 100-110: one month of the report
RenderMonth ==
  /\ pc = "report" /\ idx < Len(sorted_months)
  /\ LET month_key == sorted_months[idx + 1]
         parts == Split(month_key, "-")
         month_num == PyInt(parts[2])
     IN IF Len(parts) # 2 \/ ~month_num.ok
        THEN /\ pc' = "exit" /\ exc' = "ValueError"
             /\ UNCHANGED reportVars
        ELSE IF ~MesesIndexOk(month_num.val - 1)
        THEN /\ pc' = "exit" /\ exc' = "IndexError"
             /\ UNCHANGED reportVars
        ELSE /\ idx' = idx + 1
             /\ total_prices_all_time' =
                  GrandStep(total_prices_all_time, monthly_prices[month_key])
             /\ total_earnings_all_time' =
                  GrandStep(total_earnings_all_time, monthly_earnings[month_key])
             /\ report_content' = Append(report_content,
                  [year |-> parts[1],
                   month_name |-> ((month_num.val - 1) % 12) + 1,
                   price |-> monthly_prices[month_key],
                   earning |-> monthly_earnings[month_key]])
             /\ UNCHANGED <<pc, exc, sorted_months, report_file>>
  /\ UNCHANGED <<caller, gains_file, sales_file>>
  /\ UNCHANGED gainsVars /\ UNCHANGED salesVars

\* lines 113-123: the grand totals are rendered and the file is written
WriteReport ==
  /\ pc = "report" /\ idx = Len(sorted_months)
  /\ pc' = "exit"
  /\ report_file' = TRUE
  /\ UNCHANGED <<sorted_months, idx, total_prices_all_time, total_earnings_all_time,
                 report_content>>
  /\ UNCHANGED <<caller, gains_file, sales_file, exc>>
  /\ UNCHANGED gainsVars /\ UNCHANGED salesVars

\* lines 124-125: the write fails, IOError is caught and reported
WriteReportFails ==
  /\ pc = "report" /\ idx = Len(sorted_months)
  /\ pc' = "exit"
  /\ UNCHANGED reportVars
  /\ UNCHANGED <<caller, gains_file, sales_file, exc>>
  /\ UNCHANGED gainsVars /\ UNCHANGED salesVars

Next ==
  \/ OpenGains \/ GainsNotFound \/ ReadGainsLine \/ GainsDone \/ DirectCall
  \/ OpenSales \/ SalesNotFound \/ SalesNoHeader \/ ProcessRow \/ RowsDone
  \/ RenderMonth \/ WriteReport \/ WriteReportFails

Spec == Init /\ [][Next]_vars

\* ------------------------------------------------------ stating the claims
Get(d, k) == IF k \in DOMAIN d THEN d[k] ELSE 0

RECURSIVE SumAll(_)
SumAll(d) ==
  IF DOMAIN d = {} THEN 0
  ELSE LET k == CHOOSE x \in DOMAIN d : TRUE
       IN d[k] + SumAll([j \in DOMAIN d \ {k} |-> d[j]])

\* a ProcessRow step: the loop has taken one more row, now held in row'
RowStep == pc = "rows" /\ nRows' = nRows + 1

TotalsUnchanged ==
  monthly_prices' = monthly_prices /\ monthly_earnings' = monthly_earnings

\* the step added price p and gain g to one month and touched no other month
AddedToOneMonth(p, g) ==
  /\ DOMAIN monthly_prices' = DOMAIN monthly_earnings'
  /\ DOMAIN monthly_prices \subseteq DOMAIN monthly_prices'
  /\ \E k \in DOMAIN monthly_prices' :
       /\ monthly_prices'[k] = Get(monthly_prices, k) + p
       /\ monthly_earnings'[k] = Get(monthly_earnings, k) + g
       /\ \A j \in DOMAIN monthly_prices' \ {k} :
            /\ j \in DOMAIN monthly_prices
            /\ monthly_prices'[j] = monthly_prices[j]
            /\ monthly_earnings'[j] = monthly_earnings[j]

GainResidue(r) == CleanNumeric(r[5])
PriceResidue(r) == CleanNumeric(r[3])
PriceConverts(r) == PriceResidue(r) = <<>> \/ PyFloat(PriceResidue(r)).ok
PriceValue(r) == IF PriceResidue(r) = <<>> THEN 0 ELSE PyFloat(PriceResidue(r)).val
GainConverts(r) == GainResidue(r) = <<>> \/ PyFloat(GainResidue(r)).ok
DateParts(r) == Split(r[4], "-")
DateConverts(r) ==
  Len(DateParts(r)) >= 3 /\ PyInt(DateParts(r)[1]).ok /\ PyInt(DateParts(r)[2]).ok
QuantityText(r) == Strip(Remove(Remove(r[2], "\""), ","))

\* a row the normalizer takes: five cells, price, year and month convert
Normalizes(r) == Len(r) >= 5 /\ PriceConverts(r) /\ DateConverts(r)

KeyJan2024 == <<"2", "0", "2", "4", "-", "0", "1">>
KeyDec99 == <<"9", "9", "-", "1", "2">>

HasEntry(gm, product, key) ==
  ~gm.isNone /\ product \in DOMAIN gm.tab /\ key \in DOMAIN gm.tab[product]

\* C1: every row that is not skipped and whose gain cell leaves a non-empty
\* residue of digits and points adds exactly that residue, as a number, to its
\* month's total_gain, whatever the price, the quantity or the gains table.
C1_ExplicitGainWins ==
  [][(RowStep /\ outcome' = "add" /\ GainResidue(row') # <<>>)
       => /\ PyFloat(GainResidue(row')).ok
          /\ AddedToOneMonth(PriceValue(row'), PyFloat(GainResidue(row')).val)]_vars

C1_Witness ==
  /\ pc = "rows" /\ nRows = 1 /\ outcome = "add"
  /\ row = <<PA, Q2, PrTen, D1, GnExplicit>>
  /\ HasEntry(gains_map, PA, Q2) /\ gains_map.tab[PA][Q2] = 900
  /\ monthly_earnings = (KeyJan2024 :> 750)

\* the quantity key of C2: the quantity as a float, truncated, as a string
QuantityKeyExists(r) ==
  PyFloat(QuantityText(r)).ok /\ IntOfFloat(PyFloat(QuantityText(r))).ok

QuantityKey(r) == PyStr(IntOfFloat(PyFloat(QuantityText(r))).val)

TableGain(r, gm) ==
  IF QuantityKeyExists(r) /\ HasEntry(gm, Strip(r[1]), QuantityKey(r))
  THEN gm.tab[Strip(r[1])][QuantityKey(r)]
  ELSE 0

\* C2: a normalized row with an empty gain residue and a non-zero price gets
\* the table's gain for its product under its truncated quantity key when the
\* table has one, and gain 0.0 in every other case; it is counted in the
\* month's total_price either way.
C2_LookupOrZero ==
  [][(RowStep /\ Normalizes(row') /\ GainResidue(row') = <<>> /\ PriceValue(row') # 0)
       => /\ outcome' = "add"
          /\ AddedToOneMonth(PriceValue(row'), TableGain(row', gains_map))]_vars

\* C3: a normalized row with an empty gain residue and a price of 0 (an empty
\* price residue included) adds gain 0.0: the gains table is not consulted.
C3_ZeroPriceNoLookup ==
  [][(RowStep /\ Normalizes(row') /\ GainResidue(row') = <<>> /\ PriceValue(row') = 0)
       => /\ outcome' = "add"
          /\ AddedToOneMonth(0, 0)]_vars

C3_Witness ==
  /\ pc = "rows" /\ nRows = 1 /\ outcome = "add"
  /\ row = <<PA, Q2, PrZero, D1, GnEmpty>>
  /\ HasEntry(gains_map, PA, Q2) /\ gains_map.tab[PA][Q2] = 900
  /\ monthly_prices = (KeyJan2024 :> 0)
  /\ monthly_earnings = (KeyJan2024 :> 0)

\* the row continues the loop and changes no month's totals
SkippedAsAWhole == TotalsUnchanged /\ pc' = "rows" /\ exc' = "none"

\* C4 as stated: a row with fewer than 5 cells, a date of fewer than 3 parts,
\* or a quantity, price, year or month that does not convert to a number is
\* skipped as a whole and the loop continues.
C4_Original ==
  [][(RowStep /\ ( \/ Len(row') < 5
                   \/ Len(DateParts(row')) < 3
                   \/ ~PyFloat(QuantityText(row')).ok
                   \/ ~PriceConverts(row')
                   \/ ~DateConverts(row') ))
       => SkippedAsAWhole]_vars

\* C4 amended: a row with fewer than 5 cells, a date of fewer than 3 parts, a
\* year or month that is not an integer, or a non-empty price or gain residue
\* that is not a number is skipped as a whole and the loop continues.
C4_RowSkipped ==
  [][(RowStep /\ ( \/ Len(row') < 5
                   \/ Len(DateParts(row')) < 3
                   \/ ~DateConverts(row')
                   \/ ~PriceConverts(row')
                   \/ ~GainConverts(row') ))
       => SkippedAsAWhole /\ outcome' = "skip"]_vars

C4_Witness ==
  /\ pc = "rows" /\ nRows = 2 /\ outcome = "skip"
  /\ row = <<PA, Q2, PrTen, DBadMonth, GnEmpty>>
  /\ monthly_prices = (KeyJan2024 :> 1000)

\* the well-formed rules of each line of the gains file, written out by hand
ExpectedRules(line) ==
  CASE line = G1 -> << [p |-> PA, q |-> <<"1">>, g |-> 500],
                       [p |-> PA, q |-> <<"2">>, g |-> 900] >>
    [] line = G2 -> << [p |-> PA, q |-> <<"2">>, g |-> 0 - 300] >>
    [] line = G3 -> << [p |-> PB, q |-> <<"2">>, g |-> 400] >>
    [] OTHER -> << >>

RECURSIVE ExpectedOfLines(_)
ExpectedOfLines(lines) ==
  IF lines = <<>> THEN <<>>
  ELSE ExpectedRules(Head(lines)) \o ExpectedOfLines(Tail(lines))

StoredPairs(tab) == UNION {{<<p, q>> : q \in DOMAIN tab[p]} : p \in DOMAIN tab}

\* C5: while the gains file is read, the table holds exactly the well-formed
\* rules of the lines read so far, each under its product and quantity token
\* (the last one wins for a repeated quantity): a malformed rule removes
\* neither its siblings nor any rule of a later line.
C5_RuleDroppedAlone ==
  pc = "gains" =>
    LET flat == ExpectedOfLines(gains_lines)
        tab == gains_map.tab
    IN /\ StoredPairs(tab) = {<<flat[i].p, flat[i].q>> : i \in DOMAIN flat}
       /\ \A i \in DOMAIN flat :
            (\A j \in DOMAIN flat : j > i => <<flat[j].p, flat[j].q>> # <<flat[i].p, flat[i].q>>)
              => tab[flat[i].p][flat[i].q] = flat[i].g

C5_Witness ==
  /\ pc = "gains" /\ gains_lines = <<G3, G1>>
  /\ gains_map.tab = (PA :> ((<<"1">> :> 500) @@ (<<"2">> :> 900)))
                       @@ (PB :> (<<"2">> :> 400))

\* C6: when analyze_sales returns without an exception, the grand total price
\* is the sum of the months' total_price and the grand total gain the sum of
\* the months' total_gain.
C6_GrandTotals ==
  (pc = "exit" /\ exc = "none")
    => /\ total_prices_all_time = SumAll(monthly_prices)
       /\ total_earnings_all_time = SumAll(monthly_earnings)

C6_Witness ==
  /\ pc = "exit" /\ report_file
  /\ monthly_prices = (KeyJan2024 :> 1000) @@ (KeyDec99 :> 1000)
  /\ total_prices_all_time = 2000
  /\ total_earnings_all_time = 1500

\* year and month of a month key, as numbers
Chrono(key) == PyInt(Split(key, "-")[1]).val * 100 + PyInt(Split(key, "-")[2]).val

\* C7: the sorted month keys are in chronological order.
C7_Chronological ==
  \A i \in DOMAIN sorted_months : \A j \in DOMAIN sorted_months :
     i < j => Chrono(sorted_months[i]) <= Chrono(sorted_months[j])

\* C8: with the sales file absent analyze_sales writes no report and raises
\* nothing; with the gains file absent parse_gains_list returns None and the
\* entry point neither calls analyze_sales nor writes a report.
C8_MissingFileAborts ==
  /\ (sales_file = "missing" /\ pc = "exit") => (~report_file /\ exc = "none")
  /\ (gains_file = "missing" /\ caller = "main")
       => /\ pc \in {"main", "exit"}
          /\ gains_map = NoTable
          /\ ~report_file /\ exc = "none"
          /\ monthly_prices = EmptyMap

C8_Witness ==
  /\ pc = "exit" /\ sales_file = "missing" /\ caller = "main"
  /\ HasEntry(gains_map, PA, Q2)
  /\ ~report_file

\* C9: no exception escapes analyze_sales.
C9_NothingEscapes == exc = "none"

\* C10 as stated: no month's total_price and no month's total_gain is ever
\* lower after a step than before it.
C10_Original ==
  [][\A k \in DOMAIN monthly_prices' :
        /\ monthly_prices'[k] >= Get(monthly_prices, k)
        /\ monthly_earnings'[k] >= Get(monthly_earnings, k)]_vars

\* C10 amended: months are never removed, no month's total_price is ever
\* lower after a step than before it, and a month's total_gain is lower only
\* after a row with an empty gain residue whose product has a negative gain in
\* the gains table.
C10_NeverDecremented ==
  [][/\ DOMAIN monthly_prices \subseteq DOMAIN monthly_prices'
     /\ \A k \in DOMAIN monthly_prices' :
          /\ monthly_prices'[k] >= Get(monthly_prices, k)
          /\ monthly_earnings'[k] < Get(monthly_earnings, k)
               => /\ RowStep /\ GainResidue(row') = <<>>
                  /\ Strip(row'[1]) \in DOMAIN gains_map.tab
                  /\ \E q \in DOMAIN gains_map.tab[Strip(row'[1])] :
                       gains_map.tab[Strip(row'[1])][q] < 0]_vars

C10_Witness ==
  /\ pc = "rows" /\ nRows = 2 /\ outcome = "add"
  /\ row = <<PA, Q2, PrTen, D1, GnMinus>>
  /\ monthly_prices = (KeyJan2024 :> 2000)
  /\ monthly_earnings = (KeyJan2024 :> 1200)

====
